---- MODULE Spec2Model ----
(***************************************************************************)
(* State-machine model of the download front-end in src/src/App.tsx: the   *)
(* App component's React state, the EventSource objects opened by          *)
(* subscribeToProgress, the redirect timers their listeners schedule, and  *)
(* the user controls that the render function enables.                     *)
(***************************************************************************)
EXTENDS FiniteSets, Integers, Sequences, TLC

\* ------------------------------------------------------------------ bounds

\* Number of jobs the backend may create (successful initiate responses).
MaxJobs == 2

\* Number of redirect timers that may be scheduled in one run.
MaxRedirects == 2

\* ------------------------------------------------------------ value domains

\* JavaScript `undefined` for an optional string field, and `null` for the
\* `error` state.
Undefined == "undefined"
Null == "null"

\* currentJob === null
NoJob == [null |-> TRUE]

\* Object keys of the source bucket.
Keys == {"a.txt", "b.txt"}

Statuses == {"queued", "processing", "completed", "failed"}

\* The identifier the backend assigns to the n-th job, and the artifact URL
\* its messages carry.
JobIdOf(n) == <<"j1", "j2", "j3", "j4">>[n]
ArtifactUrl == "https://x/y"

\* JavaScript truthiness of an optional string.
Truthy(v) == v # Undefined /\ v # ""

\* Variant of OrElse with the semantics of a ?? b: only undefined falls back.
OrElseNullish(a, b) == IF a # Undefined THEN a ELSE b

\* a || b on optional strings
OrElse(a, b) == IF Truthy(a) THEN a ELSE b

\* The counters a backend message with the given status carries.
CountersOf(st) ==
  CASE st = "queued" -> [progress |-> 0, filesCompleted |-> 0, totalFiles |-> 1]
    [] st = "completed" -> [progress |-> 100, filesCompleted |-> 1, totalFiles |-> 1]
    [] OTHER -> [progress |-> 40, filesCompleted |-> 0, totalFiles |-> 1]

Payload(n, st, u, e) ==
  [jobId |-> JobIdOf(n), status |-> st, progress |-> CountersOf(st).progress,
   filesCompleted |-> CountersOf(st).filesCompleted,
   totalFiles |-> CountersOf(st).totalFiles, downloadUrl |-> u, error |-> e]

\* Parsed payloads of `progress` and `complete` events of job n.  The backend
\* is not trusted to keep downloadUrl consistent with status; a failure
\* report may carry an error text.
JobPayloads(n) ==
  { Payload(n, st, u, Undefined) :
      st \in Statuses, u \in {Undefined, ArtifactUrl} }
  \cup { Payload(n, "failed", Undefined, "disk full") }

\* Parsed payloads of `error` events of job n.
ErrorPayloads(n) ==
  { [jobId |-> Undefined, error |-> Undefined],
    [jobId |-> JobIdOf(n), error |-> ""],
    [jobId |-> JobIdOf(n), error |-> "disk full"] }

\* event.data as delivered: a JSON text (represented by the value it parses
\* to), a text that is not JSON, or no data at all (a plain Event).
Json(v) == [kind |-> "json", value |-> v]
Malformed == [kind |-> "malformed"]
NoData == [kind |-> "none"]

\* ------------------------------------------------------------------- state

VARIABLES
  files,            \* useState files: keys listed from the bucket
  selectedFiles,    \* useState selectedFiles
  loading,          \* useState loading (a listFiles call is in flight)
  currentJob,       \* useState currentJob: NoJob or a JobStatus record
  error,            \* useState error: Null or a message
  pendingInitiate,  \* initiateDownload calls awaiting the initiate response
  eventSources,     \* EventSource of the n-th job: "open" or "closed"
  timers,           \* pending setTimeout redirects (target URLs), in order
  navigations,      \* URLs assigned to window.location.href, in order
  uncaught,         \* an exception escaped a listener
  lastUpdate,       \* history: the update that last wrote currentJob
  scenario          \* history: how far the run so far follows the scenario
                    \* initiate, one processing update, complete event

vars == <<files, selectedFiles, loading, currentJob, error, pendingInitiate,
          eventSources, timers, navigations, uncaught, lastUpdate, scenario>>

NoUpdate == [kind |-> "none"]

\* ----------------------------------------------------- snapshots (pure)

\* The object built by the progress listener from the parsed payload.
ProgressSnapshot(data) ==
  [jobId |-> data.jobId, status |-> data.status, progress |-> data.progress,
   filesCompleted |-> data.filesCompleted, totalFiles |-> data.totalFiles,
   downloadUrl |-> data.downloadUrl, error |-> Undefined]

\* Variant of CompleteSnapshot that merges: a message without downloadUrl
\* keeps the one already displayed.
CompleteSnapshotMerging(data) ==
  [jobId |-> data.jobId, status |-> data.status, progress |-> data.progress,
   filesCompleted |-> data.filesCompleted, totalFiles |-> data.totalFiles,
   downloadUrl |-> IF data.downloadUrl = Undefined /\ currentJob # NoJob
                     THEN currentJob.downloadUrl
                     ELSE data.downloadUrl,
   error |-> Undefined]

\* The object built by the complete listener from the parsed payload.
CompleteSnapshot(data) ==
  [jobId |-> data.jobId, status |-> data.status, progress |-> data.progress,
   filesCompleted |-> data.filesCompleted, totalFiles |-> data.totalFiles,
   downloadUrl |-> data.downloadUrl, error |-> Undefined]

\* Variant of ErrorSnapshot that spreads the displayed job and only adds the
\* error text, so the displayed status is kept.
ErrorSnapshotKeepsStatus(jobId, raw) ==
  [jobId |-> jobId,
   status |-> IF currentJob = NoJob THEN "failed" ELSE currentJob.status,
   progress |-> 0, filesCompleted |-> 0, totalFiles |-> 0,
   downloadUrl |-> Undefined,
   error |-> IF raw.kind = "json"
               THEN OrElse(raw.value.error, "Download failed")
               ELSE "Connection error"]

\* The object built by the error listener: from a payload, or for a
\* connection error (no data, or empty data).
ErrorSnapshot(jobId, raw) ==
  IF raw.kind = "json"
    THEN [jobId |-> OrElse(raw.value.jobId, jobId), status |-> "failed",
          progress |-> 0, filesCompleted |-> 0, totalFiles |-> 0,
          downloadUrl |-> Undefined,
          error |-> OrElse(raw.value.error, "Download failed")]
    ELSE [jobId |-> jobId, status |-> "failed",
          progress |-> 0, filesCompleted |-> 0, totalFiles |-> 0,
          downloadUrl |-> Undefined, error |-> "Connection error"]

\* The object initiateDownload shows after a successful initiate response.
InitialSnapshot(data) ==
  [jobId |-> data.jobId, status |-> data.status, progress |-> 0,
   filesCompleted |-> 0, totalFiles |-> data.totalFiles,
   downloadUrl |-> Undefined, error |-> Undefined]

\* Variant of ProgressRedirects with the complete listener's test: any
\* message that carries a downloadUrl redirects.
ProgressRedirectsAnyStatus(data) == Truthy(data.downloadUrl)

\* Whether the progress listener schedules the redirect.
ProgressRedirects(data) == data.status = "completed" /\ Truthy(data.downloadUrl)

\* Whether the complete listener schedules the redirect.
CompleteRedirects(data) == Truthy(data.downloadUrl)

\* setTimeout(() => window.location.href = url, 500)
Schedule(url) == timers' = Append(timers, url)

\* Room left for one more redirect timer (model bound).
CanSchedule == Len(timers) + Len(navigations) < MaxRedirects

\* Interval timers (polls of the status endpoint) that subscribeToProgress
\* starts for the n-th job: it starts none.
PollTimers(n) == {}

\* The scenario position after a step: `next` when the run stood at
\* `expected` and the step is the scenario's next one, "off" otherwise.
Follows(expected, fits, next) ==
  scenario' = IF scenario = expected /\ fits THEN next ELSE "off"

\* eventSource.close() on the n-th job's source
Close(n) == eventSources' = [eventSources EXCEPT ![n] = "closed"]

\* -------------------------------------------------------------------- Init

Init ==
  /\ files = {}
  /\ selectedFiles = {}
  /\ loading = TRUE
  /\ currentJob = NoJob
  /\ error = Null
  /\ pendingInitiate = 0
  /\ eventSources = << >>
  /\ timers = << >>
  /\ navigations = << >>
  /\ uncaught = FALSE
  /\ lastUpdate = NoUpdate
  /\ scenario = "start"

\* ------------------------------------------------------------ file listing

\* fetchFiles up to the await (Refresh button; the mount effect's call is the
\* one in flight in Init).
FetchFilesStart ==
  /\ ~loading
  /\ loading' = TRUE
  /\ error' = Null
  /\ UNCHANGED <<files, selectedFiles, currentJob, pendingInitiate,
                 eventSources, timers, navigations, uncaught, lastUpdate, scenario>>

\* fetchFiles after the await: listFiles resolved with a list or rejected.
FetchFilesDone ==
  /\ loading
  /\ \/ \E list \in SUBSET Keys : files' = list /\ error' = error
     \/ /\ error' = "Failed to connect to storage. Please check your connection."
        /\ files' = files
  /\ loading' = FALSE
  /\ UNCHANGED <<selectedFiles, currentJob, pendingInitiate, eventSources,
                 timers, navigations, uncaught, lastUpdate, scenario>>

\* toggleFileSelection, from a row checkbox (disabled while a job is shown).
ToggleFileSelection ==
  /\ ~loading
  /\ currentJob = NoJob
  /\ \E key \in files :
       selectedFiles' = IF key \in selectedFiles
                          THEN selectedFiles \ {key}
                          ELSE selectedFiles \cup {key}
  /\ UNCHANGED <<files, loading, currentJob, error, pendingInitiate,
                 eventSources, timers, navigations, uncaught, lastUpdate, scenario>>

\* selectAll, from the button or the header checkbox.
SelectAll ==
  /\ ~loading
  /\ selectedFiles' = IF Cardinality(selectedFiles) = Cardinality(files)
                        THEN {}
                        ELSE files
  /\ UNCHANGED <<files, loading, currentJob, error, pendingInitiate,
                 eventSources, timers, navigations, uncaught, lastUpdate, scenario>>

\* ---------------------------------------------------------------- initiate

\* initiateDownload up to the await on fetch.
InitiateRequest ==
  /\ pendingInitiate + Len(eventSources) < MaxJobs
  /\ error' = Null
  /\ currentJob' = NoJob
  /\ lastUpdate' = NoUpdate
  /\ pendingInitiate' = pendingInitiate + 1
  /\ Follows("start", TRUE, "requested")
  /\ UNCHANGED <<files, selectedFiles, loading, eventSources, timers,
                 navigations, uncaught>>

\* downloadFile, from a row's Download button (disabled while a job is shown).
DownloadFile ==
  /\ ~loading
  /\ currentJob = NoJob
  /\ files # {}
  /\ InitiateRequest

\* downloadSelected, from the Download Selected button (disabled while a job
\* is shown or nothing is selected).
DownloadSelected ==
  /\ ~loading
  /\ currentJob = NoJob
  /\ selectedFiles # {}
  /\ InitiateRequest

\* The subscribeUrl values an initiate response may carry: a path, or none.
SubscribeUrls == {"/v1/download/subscribe", Undefined}

\* Whether `${API_URL}${subscribeUrl}` parses as a URL, with the default
\* API_URL 'http://localhost:3000': a path does, 'http://localhost:3000undefined'
\* does not, and new EventSource then throws a SyntaxError.
EventSourceUrlParses(subscribeUrl) == subscribeUrl = "/v1/download/subscribe"

\* The message of that SyntaxError, which the catch block shows.
SubscribeError ==
  "Failed to construct 'EventSource': Cannot open an EventSource to 'http://localhost:3000undefined'. The URL is invalid."

\* initiateDownload after the await, response.ok, for one response body: show
\* the job, then subscribe and clear the selection; when the EventSource
\* constructor throws, the job stays displayed, the catch block sets the
\* error, and the selection is kept.
OnInitiateOk(st, total, subscribeUrl) ==
  /\ pendingInitiate > 0
  /\ pendingInitiate' = pendingInitiate - 1
  /\ LET n == Len(eventSources) + 1 IN
       /\ currentJob' = InitialSnapshot(
             [jobId |-> JobIdOf(n), status |-> st, totalFiles |-> total])
       /\ lastUpdate' = [kind |-> "initiate", src |-> n]
  /\ IF EventSourceUrlParses(subscribeUrl)
       THEN /\ eventSources' = Append(eventSources, "open")
            /\ selectedFiles' = {}
            /\ error' = error
       ELSE /\ error' = SubscribeError
            /\ UNCHANGED <<eventSources, selectedFiles>>
  /\ Follows("requested", EventSourceUrlParses(subscribeUrl), "initiated")
  /\ UNCHANGED <<files, loading, timers, navigations, uncaught>>

\* initiateDownload after the await, response.ok.
InitiateOk ==
  \E st \in {"queued", "processing"}, total \in 1 .. Cardinality(Keys),
     subscribeUrl \in SubscribeUrls :
    OnInitiateOk(st, total, subscribeUrl)

\* Variant of InitiateFailed that shows the job and subscribes before it
\* looks at response.ok.
InitiateFailedSubscribes ==
  /\ pendingInitiate > 0
  /\ pendingInitiate' = pendingInitiate - 1
  /\ error' = "Failed to initiate download"
  /\ currentJob' = InitialSnapshot(
        [jobId |-> Undefined, status |-> "queued", totalFiles |-> 1])
  /\ lastUpdate' = [kind |-> "initiate", src |-> Len(eventSources) + 1]
  /\ eventSources' = Append(eventSources, "open")
  /\ scenario' = "off"
  /\ UNCHANGED <<files, selectedFiles, loading, timers, navigations, uncaught>>

\* Variant of InitiateFailed that clears the selection on failure too (as if
\* setSelectedFiles were in a finally block).
InitiateFailedClearsSelection ==
  /\ pendingInitiate > 0
  /\ pendingInitiate' = pendingInitiate - 1
  /\ error' = "Failed to initiate download"
  /\ selectedFiles' = {}
  /\ scenario' = "off"
  /\ UNCHANGED <<files, loading, currentJob, eventSources, timers,
                 navigations, uncaught, lastUpdate>>

\* initiateDownload after the await, failure: fetch rejected, or the response
\* is not ok (with or without a message).
InitiateFailed ==
  /\ pendingInitiate > 0
  /\ pendingInitiate' = pendingInitiate - 1
  /\ \E msg \in {"Failed to fetch",
                 OrElse("quota exceeded", "Failed to initiate download"),
                 OrElse(Undefined, "Failed to initiate download")} :
       error' = msg
  /\ scenario' = "off"
  /\ UNCHANGED <<files, selectedFiles, loading, currentJob, eventSources,
                 timers, navigations, uncaught, lastUpdate>>

\* ----------------------------------------------------------- push listeners

\* The `progress` listener of the n-th job's EventSource.
OnProgress(n, raw) ==
  /\ eventSources[n] = "open"
  /\ IF raw.kind # "json"
       THEN \* JSON.parse throws out of the listener
            /\ uncaught' = TRUE
            /\ UNCHANGED <<currentJob, lastUpdate, timers>>
       ELSE /\ currentJob' = ProgressSnapshot(raw.value)
            /\ lastUpdate' = [kind |-> "progress", src |-> n, data |-> raw.value]
            /\ IF ProgressRedirects(raw.value)
                 THEN CanSchedule /\ Schedule(raw.value.downloadUrl)
                 ELSE timers' = timers
            /\ uncaught' = uncaught
  /\ Follows("initiated",
             raw.kind = "json" /\ raw.value.status = "processing",
             "processing")
  /\ UNCHANGED <<files, selectedFiles, loading, error, pendingInitiate,
                 eventSources, navigations>>

\* The `complete` listener of the n-th job's EventSource.
OnComplete(n, raw) ==
  /\ eventSources[n] = "open"
  /\ IF raw.kind # "json"
       THEN \* JSON.parse throws before eventSource.close()
            /\ uncaught' = TRUE
            /\ UNCHANGED <<currentJob, lastUpdate, timers, eventSources>>
       ELSE /\ currentJob' = CompleteSnapshot(raw.value)
            /\ lastUpdate' = [kind |-> "complete", src |-> n, data |-> raw.value]
            /\ Close(n)
            /\ IF CompleteRedirects(raw.value)
                 THEN CanSchedule /\ Schedule(raw.value.downloadUrl)
                 ELSE timers' = timers
            /\ uncaught' = uncaught
  /\ Follows("processing",
             /\ raw.kind = "json"
             /\ raw.value.status = "completed"
             /\ raw.value.downloadUrl = ArtifactUrl,
             "completed")
  /\ UNCHANGED <<files, selectedFiles, loading, error, pendingInitiate,
                 navigations>>

\* The `error` listener of the n-th job's EventSource: a named `error` event
\* with data, or a connection error without.
OnError(n, raw) ==
  /\ eventSources[n] = "open"
  /\ IF raw.kind = "malformed"
       THEN \* JSON.parse throws before setCurrentJob and eventSource.close()
            /\ uncaught' = TRUE
            /\ UNCHANGED <<currentJob, lastUpdate, eventSources>>
       ELSE /\ currentJob' = ErrorSnapshot(JobIdOf(n), raw)
            /\ lastUpdate' = [kind |-> "error", src |-> n, data |-> raw]
            /\ Close(n)
            /\ uncaught' = uncaught
  /\ scenario' = "off"
  /\ UNCHANGED <<files, selectedFiles, loading, error, pendingInitiate,
                 timers, navigations>>

ProgressEvent ==
  \E n \in DOMAIN eventSources :
    \E raw \in {Json(p) : p \in JobPayloads(n)} \cup {Malformed} :
      OnProgress(n, raw)

CompleteEvent ==
  \E n \in DOMAIN eventSources :
    \E raw \in {Json(p) : p \in JobPayloads(n)} \cup {Malformed} :
      OnComplete(n, raw)

ErrorEvent ==
  \E n \in DOMAIN eventSources :
    \E raw \in {Json(p) : p \in ErrorPayloads(n)} \cup {Malformed, NoData} :
      OnError(n, raw)

\* ------------------------------------------------------- timers and dismiss

\* A redirect timer fires: window.location.href = url.
RedirectTimer ==
  /\ timers # << >>
  /\ navigations' = Append(navigations, Head(timers))
  /\ timers' = Tail(timers)
  /\ UNCHANGED <<files, selectedFiles, loading, currentJob, error,
                 pendingInitiate, eventSources, uncaught, lastUpdate, scenario>>

\* Variant of Dismiss whose Close button is rendered for every displayed job.
DismissAnyJob ==
  /\ ~loading
  /\ currentJob # NoJob
  /\ currentJob' = NoJob
  /\ lastUpdate' = NoUpdate
  /\ scenario' = "off"
  /\ UNCHANGED <<files, selectedFiles, loading, error, pendingInitiate,
                 eventSources, timers, navigations, uncaught>>

\* The Close button, rendered only for a non-terminal job.
Dismiss ==
  /\ ~loading
  /\ currentJob # NoJob
  /\ currentJob.status # "completed"
  /\ currentJob.status # "failed"
  /\ currentJob' = NoJob
  /\ lastUpdate' = NoUpdate
  /\ scenario' = "off"
  /\ UNCHANGED <<files, selectedFiles, loading, error, pendingInitiate,
                 eventSources, timers, navigations, uncaught>>

\* ------------------------------------------------------------ specification

Next ==
  \/ FetchFilesStart
  \/ FetchFilesDone
  \/ ToggleFileSelection
  \/ SelectAll
  \/ DownloadFile
  \/ DownloadSelected
  \/ InitiateOk
  \/ InitiateFailed
  \/ ProgressEvent
  \/ CompleteEvent
  \/ ErrorEvent
  \/ RedirectTimer
  \/ Dismiss

Spec == Init /\ [][Next]_vars

\* ------------------------------------------------------------------ helpers

OpenSources == {n \in DOMAIN eventSources : eventSources[n] = "open"}

Terminal(job) == job # NoJob /\ job.status \in {"completed", "failed"}

\* The messages initiateDownload can show when initiation fails.
InitiateErrors ==
  {"Failed to fetch", "quota exceeded", "Failed to initiate download"}

\* The kinds of update a push listener applies.
PushKinds == {"progress", "complete", "error"}

\* Redirects triggered so far: scheduled and still pending, or performed.
Redirects == Len(timers) + Len(navigations)

\* ------------------------------------------------------------------- claims

\* C1: for one job, navigation to the artifact URL is triggered at most once,
\* however many updates report completion with a download URL.
C1_RedirectOnce ==
  Len(eventSources) <= 1 => Redirects <= 1

\* C2: once a later job has been started, no listener of an earlier job
\* writes the displayed JobState: the update that last wrote it never comes
\* from a job other than the newest.
C2_NoUpdateAfterCancel ==
  lastUpdate.kind \in PushKinds => lastUpdate.src = Len(eventSources)

\* C3: after a progress or complete update, the displayed JobState equals
\* the fields of that message, whichever job's listener delivered it: jobId,
\* status, progress, filesCompleted, totalFiles, downloadUrl and error.
C3_LastMessageWins ==
  lastUpdate.kind \in {"progress", "complete"} =>
    /\ currentJob # NoJob
    /\ currentJob.jobId = lastUpdate.data.jobId
    /\ currentJob.status = lastUpdate.data.status
    /\ currentJob.progress = lastUpdate.data.progress
    /\ currentJob.filesCompleted = lastUpdate.data.filesCompleted
    /\ currentJob.totalFiles = lastUpdate.data.totalFiles
    /\ currentJob.downloadUrl = lastUpdate.data.downloadUrl
    /\ currentJob.error = lastUpdate.data.error

\* C4: a payload that is not JSON raises no unhandled error in any listener.
C4_MalformedDropped ==
  ~uncaught

\* C5: a connection error without payload does not put the job
\* into status failed.
C5_TransportErrorNotFailure ==
  (lastUpdate.kind = "error" /\ lastUpdate.data = NoData) =>
    currentJob.status # "failed"

\* C6: every job with an open push listener also has a poll of the status
\* endpoint running.
C6_PollRunsForLiveJob ==
  \A n \in OpenSources : PollTimers(n) # {}

\* C7: once the displayed JobState is completed or failed it never changes
\* again.
C7_TerminalIsFinal ==
  [][Terminal(currentJob) => currentJob' = currentJob]_vars

\* C8: a redirect is scheduled only by an update that reports status
\* completed together with a non-empty downloadUrl.
C8_RedirectOnlyWhenCompleted ==
  [][Len(timers') > Len(timers) =>
       /\ lastUpdate'.kind \in {"progress", "complete"}
       /\ lastUpdate'.data.status = "completed"
       /\ Truthy(lastUpdate'.data.downloadUrl)]_vars

\* C9: at every moment at most one job has an open channel.
C9_OneJobOpen ==
  Cardinality(OpenSources) <= 1

\* C10: dismissing a job closes its push listener in the same step.
C10_DismissClosesChannels ==
  [][Dismiss => OpenSources' = {}]_vars

\* C11: after an `error` event that carries no error message (no payload at
\* all, or a payload whose error field is missing or empty) the displayed
\* JobState has status failed and a generic, non-empty error text:
\* "Connection error" without payload, "Download failed" with one.
C11_GenericErrorText ==
  (/\ lastUpdate.kind = "error"
   /\ \/ lastUpdate.data = NoData
      \/ ~Truthy(lastUpdate.data.value.error)) =>
    /\ currentJob # NoJob
    /\ currentJob.status = "failed"
    /\ Truthy(currentJob.error)
    /\ currentJob.error =
         IF lastUpdate.data = NoData THEN "Connection error" ELSE "Download failed"

\* An `error` event whose payload has an empty error text was applied.
C11_Witness ==
  /\ lastUpdate.kind = "error"
  /\ lastUpdate.data # NoData
  /\ lastUpdate.data.value.error = ""
  /\ currentJob.error = "Download failed"

\* C12: for a job that was initiated, then updated by one message with
\* status processing, then by the `complete` event with status completed and
\* downloadUrl u, the displayed state is completed with downloadUrl u, the
\* push listener is closed, and the only redirect triggered, pending or
\* performed, goes to u.  The processing update arrives as a `progress`
\* event, the only update channel there is.
C12_CompleteScenario ==
  scenario = "completed" =>
    /\ currentJob # NoJob
    /\ currentJob.status = "completed"
    /\ currentJob.downloadUrl = ArtifactUrl
    /\ currentJob.progress = lastUpdate.data.progress
    /\ eventSources = <<"closed">>
    /\ timers \o navigations = <<ArtifactUrl>>

\* The end of the scenario: after the initiate response, the processing
\* update and the complete event, the one navigation, to u, was performed.
C12_Witness ==
  /\ scenario = "completed"
  /\ lastUpdate.kind = "complete"
  /\ timers = << >>
  /\ navigations = <<ArtifactUrl>>

\* C13: the step in which an initiate request fails starts no job: it leaves
\* the current job as it is (empty since the call began, unless another
\* initiation or an earlier job's listener displayed one meanwhile), opens
\* no push listener, and shows an error message.
C13_FailedInitiateStartsNoJob ==
  [][InitiateFailed =>
       /\ currentJob' = currentJob
       /\ eventSources' = eventSources
       /\ PollTimers(Len(eventSources) + 1) = {}
       /\ error' \in InitiateErrors
       /\ (lastUpdate = NoUpdate => currentJob' = NoJob)]_vars

\* The first initiate request failed: no job is shown, no listener exists,
\* and the error message is displayed.
C13_Witness ==
  /\ error \in InitiateErrors
  /\ pendingInitiate = 0
  /\ eventSources = << >>
  /\ currentJob = NoJob

\* C14: in every displayed JobState the error field is present only when
\* status is failed.
C14_ErrorOnlyWhenFailed ==
  (currentJob # NoJob /\ currentJob.error # Undefined) =>
    currentJob.status = "failed"

\* An error text taken from an `error` event's payload is displayed.
C14_Witness ==
  /\ currentJob # NoJob
  /\ currentJob.error = "disk full"
  /\ currentJob.status = "failed"

\* C15 (as claimed): in every displayed JobState a downloadUrl is present
\* only when status is completed.
C15_UrlOnlyWhenCompleted ==
  (currentJob # NoJob /\ Truthy(currentJob.downloadUrl)) =>
    currentJob.status = "completed"

\* C15 (amended): in every displayed JobState a downloadUrl is present only
\* when the last applied update is a progress or complete message carrying
\* that downloadUrl, whatever its status; initiate and error snapshots have
\* none.
C15_UrlOnlyFromLastMessage ==
  (currentJob # NoJob /\ currentJob.downloadUrl # Undefined) =>
    /\ lastUpdate.kind \in {"progress", "complete"}
    /\ lastUpdate.data.downloadUrl = currentJob.downloadUrl

\* A progress message that is not completed carried a downloadUrl, and it is
\* displayed.
C15_Witness ==
  /\ currentJob # NoJob
  /\ currentJob.downloadUrl = ArtifactUrl
  /\ currentJob.status = "processing"
  /\ lastUpdate.kind = "progress"

\* C16 (as claimed): Close is enabled only while the displayed job is
\* non-terminal, and download initiation and every selection change are
\* enabled only while no job is displayed.
C16_ControlsGated ==
  /\ ENABLED Dismiss => (currentJob # NoJob /\ ~Terminal(currentJob))
  /\ ENABLED (DownloadFile \/ DownloadSelected) => currentJob = NoJob
  /\ ENABLED ((ToggleFileSelection \/ SelectAll)
                /\ selectedFiles' # selectedFiles) => currentJob = NoJob

\* C16 (amended): Close is enabled only while the displayed job is
\* non-terminal, and download initiation and the per-file selection toggles
\* are enabled only while no job is displayed (Select All stays enabled);
\* hence while the displayed job is completed or failed, no control clears
\* it and none initiates a download.
C16_ControlsGatedButSelectAll ==
  /\ ENABLED Dismiss => (currentJob # NoJob /\ ~Terminal(currentJob))
  /\ ENABLED (DownloadFile \/ DownloadSelected) => currentJob = NoJob
  /\ ENABLED ToggleFileSelection => currentJob = NoJob
  /\ Terminal(currentJob) =>
       ~ENABLED ((FetchFilesStart \/ ToggleFileSelection \/ SelectAll
                   \/ DownloadFile \/ DownloadSelected \/ Dismiss)
                 /\ (currentJob' # currentJob
                       \/ pendingInitiate' # pendingInitiate))

\* A terminal job is displayed while files are listed and selected, so that
\* only the gating keeps the controls off.
C16_Witness ==
  /\ Terminal(currentJob)
  /\ ~loading
  /\ files # {}
  /\ selectedFiles # {}
  /\ pendingInitiate + Len(eventSources) < MaxJobs

\* C17 (as claimed): initiateDownload clears the selection exactly when
\* initiation succeeds: the step that handles an ok response leaves the
\* selection empty, and neither the call itself nor the step that handles a
\* failed request changes the selection.
C17_SelectionClearedOnSuccessOnly ==
  [][/\ InitiateOk => selectedFiles' = {}
     /\ InitiateFailed => selectedFiles' = selectedFiles
     /\ (DownloadFile \/ DownloadSelected) => selectedFiles' = selectedFiles]_vars

\* C17 (amended): the step that handles an ok response leaves the selection
\* empty when the push listener could be opened, and leaves it unchanged
\* when the EventSource constructor throws; neither the call itself nor the
\* step that handles a failed request changes the selection.
C17_SelectionClearedWhenSubscribed ==
  [][/\ \A st \in {"queued", "processing"}, total \in 1 .. Cardinality(Keys),
           subscribeUrl \in SubscribeUrls :
         OnInitiateOk(st, total, subscribeUrl) =>
           selectedFiles' = IF EventSourceUrlParses(subscribeUrl)
                              THEN {} ELSE selectedFiles
     /\ InitiateFailed => selectedFiles' = selectedFiles
     /\ (DownloadFile \/ DownloadSelected) => selectedFiles' = selectedFiles]_vars

\* An ok response without subscribeUrl was handled for a download of the
\* selected files: the job is displayed with the error, no listener exists,
\* and the selection is still there.
C17_Witness ==
  /\ error = SubscribeError
  /\ pendingInitiate = 0
  /\ eventSources = << >>
  /\ lastUpdate.kind = "initiate"
  /\ selectedFiles # {}

\* C18: a call to selectAll leaves the selection equal to the set of all
\* listed files or empty, and empties it only when every listed file was
\* selected before the call.
C18_SelectAllTogglesAll ==
  [][SelectAll =>
       /\ selectedFiles' \in {files, {}}
       /\ (selectedFiles' = {} => files \subseteq selectedFiles)]_vars

====
